---- MODULE Spec2Model ----
(***************************************************************************)
(* Community Health Center Search: the zipcode search of the frontend.     *)
(*                                                                         *)
(*   geocodeZipcode      frontend/src/utils/geocoding.ts                   *)
(*   loadHealthCenters   frontend/src/utils/csvLoader.ts                   *)
(*   App / handleSearch  frontend/src/App.tsx                              *)
(*                                                                         *)
(* Conventions of the model                                                *)
(*   - a string the code scans character by character (the zipcode input)  *)
(*     is a sequence of one-character strings;                             *)
(*   - a coordinate is an integer number of 1/10000 degree (the static     *)
(*     table's 42.3736 is 423736);                                         *)
(*   - a distance is an integer number of 1/100 mile;                      *)
(*   - the JavaScript value NaN is the number NaN below, which no          *)
(*     coordinate and no distance takes.                                   *)
(***************************************************************************)
EXTENDS Integers, Sequences, FiniteSets, TLC

VARIABLES
    csv,              \* the rows of data/centers.csv, as the fetch returns them
    centers,          \* App state: the loaded records
    filteredCenters,  \* App state: the displayed list
    selectedCenter,   \* App state: name of the selected record, or NoCenter
    zipcode,          \* App state: the zipcode input box
    searchZipcode,    \* App state: zipcode of the active search, <<>> when none
    loading,          \* App state
    searching,        \* App state
    error,            \* App state: the message shown, NoError for null
    radius,           \* App state: miles
    filter,           \* App state: the five service type checkboxes
    search,           \* the handleSearch call in flight or last completed
    geo,              \* the geocodeZipcode call in flight or last completed
    userActions,      \* number of edits counted against MaxUserActions
    gtag,             \* analytics: a measurement id is set and window.gtag exists
    gtagEvents,       \* analytics: the zipcode_search events the handleSearch
                      \* call in flight or last completed passed to window.gtag
    recentRequest,    \* a request to the remote geocoding service started
                      \* less than one second ago
    classification    \* the last call of classify: its input and its flags

vars == <<csv, centers, filteredCenters, selectedCenter, zipcode, searchZipcode,
          loading, searching, error, radius, filter, search, geo, userActions,
          gtag, gtagEvents, recentRequest,
                   classification>>

appVars == <<csv, centers, filteredCenters, selectedCenter, zipcode,
             searchZipcode, loading, searching, error, radius, filter, search,
             userActions, gtag, gtagEvents>>

\* the request of lines 18-25 is issued by the step that takes geocodeZipcode
\* to the state g
RequestStarted(g) == g.pc = "fetching"

----------------------------------------------------------------------------
(* Bounds of the model *)

\* rows of the data file: the file holds a subsequence of the first MaxRows
\* rows of CsvRows
MaxRows == 5

\* edits of the controls (filter, radius, zipcode, selection) in one run of
\* the whole application
MaxUserActions == 2

----------------------------------------------------------------------------
(* JavaScript values *)

NaN == 0 - 999999999

null == [null |-> TRUE]

isNaN(x) == x = NaN

\* the truthiness of a number: 0 and NaN are falsy
TruthyNumber(x) == x # 0 /\ x # NaN

\* the truthiness of a string: '' is falsy
TruthyString(s) == s # ""

\* a <= b on numbers: false when either side is NaN
NumberLeq(a, b) == a # NaN /\ b # NaN /\ a <= b

\* a numeric text such as "42.3736" is the cell Num(423736); any text that
\* parseFloat cannot read is Junk
Num(v) == [numeric |-> TRUE, value |-> v]

Junk == [numeric |-> FALSE, value |-> 0]

parseFloat(text) == IF text.numeric THEN text.value ELSE NaN

Digits == {"0", "1", "2", "3", "4", "5", "6", "7", "8", "9"}

Whitespace == {" "}

\* String.prototype.trim() leaves nothing: every character is white space
TrimIsEmpty(s) == \A i \in 1..Len(s) : s[i] \in Whitespace

IsDigit(c) == c \in Digits

\* zipcode.replace(/\D/g, '')
StripNonDigits(s) == SelectSeq(s, IsDigit)

\* zipcode.substring(0, 3)
Prefix3(s) == SubSeq(s, 1, IF Len(s) < 3 THEN Len(s) ELSE 3)

----------------------------------------------------------------------------
(* geocodeZipcode: utils/geocoding.ts *)

\* commonZipcodes: the static fallback table
commonZipcodes ==
    { [zip |-> <<"0","2","1","3","8">>, lat |-> 423736, lng |-> -711190, city |-> "Cambridge"],
      [zip |-> <<"0","2","1","3","9">>, lat |-> 423656, lng |-> -711040, city |-> "Cambridge"],
      [zip |-> <<"0","2","1","4","0">>, lat |-> 423916, lng |-> -711230, city |-> "Cambridge"],
      [zip |-> <<"0","2","1","4","1">>, lat |-> 423731, lng |-> -710854, city |-> "Cambridge"],
      [zip |-> <<"0","2","1","1","8">>, lat |-> 423389, lng |-> -710736, city |-> "Boston"],
      [zip |-> <<"0","2","1","1","5">>, lat |-> 423429, lng |-> -711000, city |-> "Boston"],
      [zip |-> <<"0","2","1","1","6">>, lat |-> 423500, lng |-> -710800, city |-> "Boston"],
      [zip |-> <<"0","1","4","2","0">>, lat |-> 425806, lng |-> -717939, city |-> "Fitchburg"],
      [zip |-> <<"0","2","1","4","8">>, lat |-> 424199, lng |-> -710728, city |-> "Malden"],
      [zip |-> <<"0","2","1","4","5">>, lat |-> 423921, lng |-> -710930, city |-> "Somerville"] }

InCommonZipcodes(zip) == \E e \in commonZipcodes : e.zip = zip

\* the regional prefix of the heuristic and its centroid
BostonPrefix == <<"0", "2", "1">>

BostonAreaLocation(zip) ==
    [zipcode |-> zip, latitude |-> 423601, longitude |-> -710589,
     city |-> "Boston Area", state |-> "MA"]

\* the static table alone: no prefix heuristic
getZipcodeFallbackTableOnly(zip) ==
    IF InCommonZipcodes(zip)
    THEN LET match == CHOOSE e \in commonZipcodes : e.zip = zip
         IN  [tiers |-> <<"table">>,
              location |-> [zipcode |-> zip, latitude |-> match.lat,
                            longitude |-> match.lng, city |-> match.city,
                            state |-> "MA"]]
    ELSE [tiers |-> <<"table", "prefix">>, location |-> null]

\* the prefix heuristic answering for every code that is not in the table
getZipcodeFallbackAnyPrefix(zip) ==
    IF InCommonZipcodes(zip)
    THEN LET match == CHOOSE e \in commonZipcodes : e.zip = zip
         IN  [tiers |-> <<"table">>,
              location |-> [zipcode |-> zip, latitude |-> match.lat,
                            longitude |-> match.lng, city |-> match.city,
                            state |-> "MA"]]
    ELSE [tiers |-> <<"table", "prefix">>, location |-> BostonAreaLocation(zip)]

\* getZipcodeFallback: the static table, then the prefix heuristic.
\* tiers lists the tiers the call consulted, in order: the table lookup of
\* line 73 is always made, the prefix test of line 87 only without a match
getZipcodeFallback(zip) ==
    IF InCommonZipcodes(zip)
    THEN LET match == CHOOSE e \in commonZipcodes : e.zip = zip
         IN  [tiers |-> <<"table">>,
              location |-> [zipcode |-> zip, latitude |-> match.lat,
                            longitude |-> match.lng, city |-> match.city,
                            state |-> "MA"]]
    ELSE IF Prefix3(zip) = BostonPrefix
         THEN [tiers |-> <<"table", "prefix">>, location |-> BostonAreaLocation(zip)]
         ELSE [tiers |-> <<"table", "prefix">>, location |-> null]

\* what the remote service can answer to one request
\*   throws   fetch rejects (network error)
\*   notok    a response whose ok is false
\*   badjson  an ok response whose body response.json() cannot read
\*   data     an ok response whose body is the array data (possibly empty,
\*            possibly holding null where a result object is expected)
RemoteResultA ==
    [lat |-> Num(423751), lon |-> Num(-711056), city |-> "Cambridge", state |-> "Massachusetts"]

RemoteResultB ==
    [lat |-> Num(423400), lon |-> Num(-710700), city |-> "Boston", state |-> "Massachusetts"]

RemoteResultJunk ==
    [lat |-> Junk, lon |-> Junk, city |-> "", state |-> ""]

RemoteReplies ==
    { [kind |-> "throws", data |-> <<>>],
      [kind |-> "notok", data |-> <<>>],
      [kind |-> "badjson", data |-> <<>>],
      [kind |-> "data", data |-> <<>>],
      [kind |-> "data", data |-> <<RemoteResultA>>],
      [kind |-> "data", data |-> <<RemoteResultB, RemoteResultA>>],
      [kind |-> "data", data |-> <<RemoteResultJunk>>],
      [kind |-> "data", data |-> <<null>>] }

\* the reply raises an exception inside the try block: fetch rejects (line
\* 18), response.json() rejects (line 28), or result.lat is read on null
\* (line 33)
RemoteThrows(reply) ==
    \/ reply.kind \in {"throws", "badjson"}
    \/ reply.kind = "data" /\ Len(reply.data) > 0 /\ reply.data[1] = null

\* the reply makes the try block return a location (lines 27-38)
RemoteSucceeds(reply) ==
    reply.kind = "data" /\ Len(reply.data) > 0 /\ ~RemoteThrows(reply)

\* the location built from data[0] (lines 30-37)
RemoteLocation(cleanZip, reply) ==
    LET result == reply.data[1]
    IN  [zipcode |-> cleanZip,
         latitude |-> parseFloat(result.lat),
         longitude |-> parseFloat(result.lon),
         city |-> result.city, state |-> result.state]

GeoIdle ==
    [pc |-> "idle", zipcode |-> <<>>, cleanZip |-> <<>>, tiers |-> <<>>,
     reply |-> null, result |-> null]

\* the format check made on the input as given, not on its digits
GeocodeEnterUnstripped(input) ==
    LET cleanZip == StripNonDigits(input)
    IN  IF Len(input) # 5
        THEN [pc |-> "returned", zipcode |-> input, cleanZip |-> cleanZip,
              tiers |-> <<>>, reply |-> null, result |-> null]
        ELSE [pc |-> "fetching", zipcode |-> input, cleanZip |-> cleanZip,
              tiers |-> <<"remote">>, reply |-> null, result |-> null]

\* the format check rejecting only inputs of fewer than five digits
GeocodeEnterAtLeastFive(input) ==
    LET cleanZip == StripNonDigits(input)
    IN  IF Len(cleanZip) < 5
        THEN [pc |-> "returned", zipcode |-> input, cleanZip |-> cleanZip,
              tiers |-> <<>>, reply |-> null, result |-> null]
        ELSE [pc |-> "fetching", zipcode |-> input, cleanZip |-> cleanZip,
              tiers |-> <<"remote">>, reply |-> null, result |-> null]

\* geocodeZipcode up to its first await (lines 9-25): normalisation, the
\* format check, and the request to the remote service
GeocodeEnter(input) ==
    LET cleanZip == StripNonDigits(input)
    IN  IF Len(cleanZip) # 5
        THEN [pc |-> "returned", zipcode |-> input, cleanZip |-> cleanZip,
              tiers |-> <<>>, reply |-> null, result |-> null]
        ELSE [pc |-> "fetching", zipcode |-> input, cleanZip |-> cleanZip,
              tiers |-> <<"remote">>, reply |-> null, result |-> null]

\* the fallback reached only from the catch block: a non-OK or an empty
\* answer returns null
GeocodeResumeFallbackOnThrowOnly(g, reply) ==
    IF RemoteSucceeds(reply)
    THEN [g EXCEPT !.pc = "returned", !.reply = reply,
                   !.result = RemoteLocation(g.cleanZip, reply)]
    ELSE IF RemoteThrows(reply)
    THEN LET fallback == getZipcodeFallback(g.cleanZip)
         IN  [g EXCEPT !.pc = "returned", !.reply = reply,
                       !.tiers = g.tiers \o fallback.tiers,
                       !.result = fallback.location]
    ELSE [g EXCEPT !.pc = "returned", !.reply = reply, !.result = null]

\* the static table consulted before the answer of the remote service is
\* used
GeocodeResumeTableFirst(g, reply) ==
    LET fallback == getZipcodeFallback(g.cleanZip)
    IN  IF InCommonZipcodes(g.cleanZip) \/ ~RemoteSucceeds(reply)
        THEN [g EXCEPT !.pc = "returned", !.reply = reply,
                       !.tiers = g.tiers \o fallback.tiers,
                       !.result = fallback.location]
        ELSE [g EXCEPT !.pc = "returned", !.reply = reply,
                       !.result = RemoteLocation(g.cleanZip, reply)]

\* the try block without its catch: an exception of the remote tier leaves
\* geocodeZipcode as a rejection
GeocodeResumeNoCatch(g, reply) ==
    IF RemoteThrows(reply)
    THEN [g EXCEPT !.pc = "threw", !.reply = reply]
    ELSE IF RemoteSucceeds(reply)
    THEN [g EXCEPT !.pc = "returned", !.reply = reply,
                   !.result = RemoteLocation(g.cleanZip, reply)]
    ELSE LET fallback == getZipcodeFallback(g.cleanZip)
         IN  [g EXCEPT !.pc = "returned", !.reply = reply,
                       !.tiers = g.tiers \o fallback.tiers,
                       !.result = fallback.location]

\* geocodeZipcode from the reply of the remote service to its return
\* (lines 27-51); the catch of line 40 takes every exception of the try
\* block to the fallback
GeocodeResume(g, reply) ==
    IF RemoteSucceeds(reply)
    THEN [g EXCEPT !.pc = "returned", !.reply = reply,
                   !.result = RemoteLocation(g.cleanZip, reply)]
    ELSE LET fallback == getZipcodeFallback(g.cleanZip)
         IN  [g EXCEPT !.pc = "returned", !.reply = reply,
                       !.tiers = g.tiers \o fallback.tiers,
                       !.result = fallback.location]

----------------------------------------------------------------------------
(* loadHealthCenters: utils/csvLoader.ts *)

Capabilities ==
    {"primary_care", "dental_care", "vision", "behavioral_health", "pharmacy"}

\* the rows the data file may hold, header names already normalised.
\* latitude and longitude are cells read by parseFloat; the has_ cells and
\* the four service text cells are strings
Row(name, lat, lon, types, openai, final, all, caps) ==
    [name |-> name, latitude |-> lat, longitude |-> lon,
     types |-> types, openai_types |-> openai, final_types |-> final,
     all_services |-> all, has |-> caps]

NoCaps == [c \in Capabilities |-> ""]

CsvRows ==
    << Row("Far", Num(425806), Num(-717939), "Primary Care", "", "", "",
           [NoCaps EXCEPT !["primary_care"] = "true"]),
       Row("TieA", Num(424170), Num(-711190), "", "", "Dental, Vision", "",
           [NoCaps EXCEPT !["dental_care"] = "TRUE", !["vision"] = "true",
                          !["pharmacy"] = "false"]),
       Row("NoCoords", Junk, Num(-711190), "", "", "", "",
           [NoCaps EXCEPT !["behavioral_health"] = "true"]),
       Row("Bare", Num(423736), Num(-711190), "", "", "", "", NoCaps),
       Row("TieB", Num(424170), Num(-711190), "", "Pharmacy", "", "",
           [NoCaps EXCEPT !["pharmacy"] = "True", !["vision"] = "yes"]),
       Row("Mid", Num(423389), Num(-710736), "", "", "", "Counseling, Podiatry",
           [NoCaps EXCEPT !["behavioral_health"] = "true"]),
       Row("ZeroLon", Num(423736), Num(0), "Podiatry", "", "", "",
           [c \in Capabilities |-> "false"]) >>

RowCount == IF MaxRows < Len(CsvRows) THEN MaxRows ELSE Len(CsvRows)

\* the rows of CsvRows whose index is in S, in the order of CsvRows
PickRows(S) ==
    LET idx == SelectSeq([i \in 1..RowCount |-> i], LAMBDA i : i \in S)
    IN  [k \in 1..Len(idx) |-> CsvRows[idx[k]]]

CsvFiles == { PickRows(S) : S \in SUBSET (1..RowCount) }

\* String.prototype.toLowerCase on the texts a has_ cell holds
toLowerCase(s) ==
    CASE s = "TRUE" -> "true"
      [] s = "True" -> "true"
      [] s = "FALSE" -> "false"
      [] s = "False" -> "false"
      [] OTHER -> s

\* transform (lines 30-43) for latitude and longitude
TransformCoordinate(cell) ==
    LET num == parseFloat(cell) IN IF isNaN(num) THEN 0 ELSE num

\* a has_ cell compared with 'true' as written, without toLowerCase
TransformFlagCaseSensitive(cell) == cell = "true"

\* transform (lines 30-43) for the has_ fields
TransformFlag(cell) == toLowerCase(cell) = "true"

\* one parsed row after transform
TransformRow(row) ==
    [name |-> row.name,
     latitude |-> TransformCoordinate(row.latitude),
     longitude |-> TransformCoordinate(row.longitude),
     types |-> row.types, openai_types |-> row.openai_types,
     final_types |-> row.final_types, all_services |-> row.all_services,
     has_primary_care |-> TransformFlag(row.has["primary_care"]),
     has_dental_care |-> TransformFlag(row.has["dental_care"]),
     has_vision |-> TransformFlag(row.has["vision"]),
     has_behavioral_health |-> TransformFlag(row.has["behavioral_health"]),
     has_pharmacy |-> TransformFlag(row.has["pharmacy"])]

\* the filter of complete (lines 45-47)
KeptByLoader(center) ==
    /\ TruthyNumber(center.latitude) /\ TruthyNumber(center.longitude)
    /\ center.latitude # 0 /\ center.longitude # 0

\* loadHealthCenters on a data file that was fetched and parsed
loadHealthCenters(rows) ==
    SelectSeq([i \in 1..Len(rows) |-> TransformRow(rows[i])], KeptByLoader)

----------------------------------------------------------------------------
(* classify: the service type matcher that fills the has_ columns of the   *)
(* data file. The script that holds it is not among the sources; it is     *)
(* modelled from section 4.3 of the specification.                         *)

MaxTokens == 2

UpperCaseLetters ==
    <<"A","B","C","D","E","F","G","H","I","J","K","L","M","N","O","P","Q","R","S","T","U","V","W","X","Y","Z">>

LowerCaseLetters ==
    <<"a","b","c","d","e","f","g","h","i","j","k","l","m","n","o","p","q","r","s","t","u","v","w","x","y","z">>

\* one character in lower case
LowerChar(ch) ==
    IF \E i \in 1..26 : UpperCaseLetters[i] = ch
    THEN LowerCaseLetters[CHOOSE i \in 1..26 : UpperCaseLetters[i] = ch]
    ELSE ch

LowerChars(s) == [i \in 1..Len(s) |-> LowerChar(s[i])]

\* s without the white space at its two ends
RECURSIVE Trim(_)
Trim(s) ==
    IF s = <<>> THEN s
    ELSE IF Head(s) \in Whitespace THEN Trim(Tail(s))
    ELSE IF s[Len(s)] \in Whitespace THEN Trim(SubSeq(s, 1, Len(s) - 1))
    ELSE s

\* the pieces of s between its commas
RECURSIVE SplitOnCommas(_)
SplitOnCommas(s) ==
    IF \A i \in 1..Len(s) : s[i] # ","
    THEN <<s>>
    ELSE LET k == CHOOSE i \in 1..Len(s) :
                      s[i] = "," /\ \A j \in 1..(i - 1) : s[j] # ","
         IN  <<SubSeq(s, 1, k - 1)>> \o SplitOnCommas(SubSeq(s, k + 1, Len(s)))

\* keyword occurs in token
Contains(token, keyword) ==
    \E i \in 1..(Len(token) - Len(keyword) + 1) :
        SubSeq(token, i, i + Len(keyword) - 1) = keyword

\* the keyword set of a capability flag
Keywords(c) ==
    CASE c = "primary_care" ->
            {<<"p","r","i","m","a","r","y"," ","c","a","r","e">>,
             <<"i","n","t","e","r","n","a","l"," ","m","e","d","i","c","i","n","e">>,
             <<"f","a","m","i","l","y"," ","m","e","d","i","c","i","n","e">>,
             <<"g","e","n","e","r","a","l"," ","p","r","a","c","t","i","c","e">>}
      [] c = "dental_care" ->
            {<<"d","e","n","t","a","l">>,
             <<"d","e","n","t","i","s","t","r","y">>}
      [] c = "vision" ->
            {<<"v","i","s","i","o","n">>,
             <<"e","y","e"," ","c","a","r","e">>,
             <<"o","p","t","o","m","e","t","r","y">>,
             <<"o","p","h","t","h","a","l","m","o","l","o","g","y">>}
      [] c = "behavioral_health" ->
            {<<"b","e","h","a","v","i","o","r","a","l"," ","h","e","a","l","t","h">>,
             <<"m","e","n","t","a","l"," ","h","e","a","l","t","h">>,
             <<"p","s","y","c","h","i","a","t","r","y">>,
             <<"c","o","u","n","s","e","l","i","n","g">>,
             <<"t","h","e","r","a","p","y">>}
      [] c = "pharmacy" ->
            {<<"p","h","a","r","m","a","c","y">>}

\* a token matches only when it is one of the keywords
TokenMatchesExactly(token, c) == token \in Keywords(c)

\* the token, trimmed and in lower case, contains a keyword of the flag
TokenMatches(token, c) == \E keyword \in Keywords(c) : Contains(token, keyword)

classify(text) ==
    LET pieces == SplitOnCommas(text)
        tokens == [i \in 1..Len(pieces) |-> LowerChars(Trim(pieces[i]))]
    IN  [c \in Capabilities |-> \E i \in 1..Len(tokens) : TokenMatches(tokens[i], c)]

----------------------------------------------------------------------------
(* calculateDistance: utils/distance.ts, the haversine distance            *)
(*   2 R asin(sqrt(sin^2(dlat/2) + cos(lat1) cos(lat2) sin^2(dlon/2)))     *)
(* with R = 3958.8 miles, tabulated in 1/100 mile (rounded) on the points *)
(* of the model: HaversineCentimiles[i][j] is the distance from            *)
(* GeoPoints[i] to GeoPoints[j].                                           *)

GeoPoints ==
    << <<423736, -711190>>,
       <<423656, -711040>>,
       <<423916, -711230>>,
       <<423731, -710854>>,
       <<423389, -710736>>,
       <<423429, -711000>>,
       <<423500, -710800>>,
       <<425806, -717939>>,
       <<424199, -710728>>,
       <<423921, -710930>>,
       <<423601, -710589>>,
       <<423751, -711056>>,
       <<423400, -710700>>,
       <<424170, -711190>> >>
HaversineCentimiles ==
    << <<   0,   94,  126,  172,  333,  233,  257, 3725,  397,  184,  321,   69,  341,  300>>,
       <<  94,    0,  204,  108,  241,  158,  163, 3817,  408,  192,  233,   66,  248,  363>>,
       << 126,  204,    0,  231,  443,  356,  362, 3659,  322,  153,  393,  145,  448,  177>>,
       << 172,  108,  231,    0,  244,  222,  162, 3885,  330,  137,  162,  104,  242,  348>>,
       << 333,  241,  443,  244,    0,  138,   83, 4034,  560,  381,  165,  299,   20,  587>>,
       << 233,  158,  356,  222,  138,    0,  113, 3900,  550,  342,  241,  224,  155,  521>>,
       << 257,  163,  362,  162,   83,  113,    0, 3972,  484,  298,  128,  217,   86,  504>>,
       <<3725, 3817, 3659, 3885, 4034, 3900, 3972,    0, 3838, 3801, 4044, 3784, 4047, 3619>>,
       << 397,  408,  322,  330,  560,  550,  484, 3838,    0,  218,  419,  352,  552,  237>>,
       << 184,  192,  153,  137,  381,  342,  298, 3801,  218,    0,  281,  134,  379,  217>>,
       << 321,  233,  393,  162,  165,  241,  128, 4044,  419,  281,    0,  260,  150,  499>>,
       <<  69,   66,  145,  104,  299,  224,  217, 3784,  352,  134,  260,    0,  303,  297>>,
       << 341,  248,  448,  242,   20,  155,   86, 4047,  552,  379,  150,  303,    0,  588>>,
       << 300,  363,  177,  348,  587,  521,  504, 3619,  237,  217,  499,  297,  588,    0>> >>

\* a number of miles in the unit of distance
Miles(m) == m * 100

PointIndex(lat, lon) == CHOOSE i \in 1..Len(GeoPoints) : GeoPoints[i] = <<lat, lon>>

\* the formula with the cosine of the first latitude taken twice, in place
\* of cos(lat1) cos(lat2): the result grows when the first point is the more
\* southern one and the longitudes differ
calculateDistanceFirstCosineTwice(lat1, lon1, lat2, lon2) ==
    IF isNaN(lat1) \/ isNaN(lon1) \/ isNaN(lat2) \/ isNaN(lon2)
    THEN NaN
    ELSE HaversineCentimiles[PointIndex(lat1, lon1)][PointIndex(lat2, lon2)]
         + (IF lat1 < lat2 /\ lon1 # lon2 THEN 1 ELSE 0)

\* the arithmetic of the formula yields NaN as soon as one argument is NaN
calculateDistance(lat1, lon1, lat2, lon2) ==
    IF isNaN(lat1) \/ isNaN(lon1) \/ isNaN(lat2) \/ isNaN(lon2)
    THEN NaN
    ELSE HaversineCentimiles[PointIndex(lat1, lon1)][PointIndex(lat2, lon2)]

----------------------------------------------------------------------------
(* App: App.tsx *)

NoCenter == ""

NoError == "null"

RadiusOptions == {3, 5, 10, 50}

DefaultRadius == 3

NoFilter == [c \in Capabilities |-> FALSE]

\* hasAnyFilter of handleSearch (line 130)
hasAnyFilter(f) ==
    f["primary_care"] \/ f["dental_care"] \/ f["vision"]
        \/ f["behavioral_health"] \/ f["pharmacy"]

\* every selected filter has to match (AND in place of OR)
MatchesEveryFilter(f, center) ==
    /\ f["primary_care"] => center.has_primary_care
    /\ f["dental_care"] => center.has_dental_care
    /\ f["vision"] => center.has_vision
    /\ f["behavioral_health"] => center.has_behavioral_health
    /\ f["pharmacy"] => center.has_pharmacy

\* matches.length > 0 of handleSearch (lines 141-147)
MatchesFilter(f, center) ==
    \/ f["primary_care"] /\ center.has_primary_care
    \/ f["dental_care"] /\ center.has_dental_care
    \/ f["vision"] /\ center.has_vision
    \/ f["behavioral_health"] /\ center.has_behavioral_health
    \/ f["pharmacy"] /\ center.has_pharmacy

\* no exemption for records without service data
hasNoServiceDataNever(center) == FALSE

\* hasNoServiceData (line 135)
hasNoServiceData(center) ==
    /\ ~TruthyString(center.all_services) /\ ~TruthyString(center.final_types)
    /\ ~TruthyString(center.openai_types) /\ ~TruthyString(center.types)

\* hasAnyFilter of the effect (line 60): the pharmacy checkbox is not read
effectHasAnyFilter(f) ==
    f["primary_care"] \/ f["dental_care"] \/ f["vision"] \/ f["behavioral_health"]

\* matches.length > 0 of the effect (lines 67-72)
effectMatchesFilter(f, center) ==
    \/ f["primary_care"] /\ center.has_primary_care
    \/ f["dental_care"] /\ center.has_dental_care
    \/ f["vision"] /\ center.has_vision
    \/ f["behavioral_health"] /\ center.has_behavioral_health

\* the effect without the return of line 57: the filters are applied to the
\* loaded records also while a zipcode search is active
FilterEffectDuringSearch(cs, isLoading, active, f, shown) ==
    IF Len(cs) = 0 \/ isLoading THEN shown
    ELSE IF ~effectHasAnyFilter(f) THEN cs
    ELSE SelectSeq(cs, LAMBDA center : effectMatchesFilter(f, center))

\* the effect of lines 55-76, run after a render that changed one of its
\* dependencies: the displayed list it leaves
FilterEffect(cs, isLoading, active, f, shown) ==
    IF Len(cs) = 0 \/ isLoading THEN shown
    ELSE IF active # <<>> THEN shown
    ELSE IF ~effectHasAnyFilter(f) THEN cs
    ELSE SelectSeq(cs, LAMBDA center : effectMatchesFilter(f, center))

\* validCenters (line 104)
validCenters(cs) ==
    SelectSeq(cs, LAMBDA center :
        TruthyNumber(center.latitude) /\ TruthyNumber(center.longitude))

\* a result object built without the spread of the record: name and
\* distance are set, every other field keeps its empty value
WithDistanceNoSpread(center, location) ==
    LET distance == calculateDistance(location.latitude, location.longitude,
                                      center.latitude, center.longitude)
    IN  [k \in DOMAIN center \cup {"distance"} |->
            IF k = "distance" THEN distance
            ELSE IF k = "name" THEN center.name
            ELSE IF k \in {"latitude", "longitude"} THEN 0
            ELSE IF k \in {"types", "openai_types", "final_types", "all_services"} THEN ""
            ELSE FALSE]

\* { ...center, distance } (lines 108-119)
WithDistance(center, location) ==
    LET distance == calculateDistance(location.latitude, location.longitude,
                                      center.latitude, center.longitude)
    IN  [k \in DOMAIN center \cup {"distance"} |->
            IF k = "distance" THEN distance ELSE center[k]]

\* withinRadius with the boundary excluded
withinRadiusStrict(center, r) ==
    center.distance # NaN /\ center.distance < Miles(r)

\* withinRadius (line 121)
withinRadius(center, r) == NumberLeq(center.distance, Miles(r))

\* a.distance || 0
OrZero(x) == IF TruthyNumber(x) THEN x ELSE 0

\* the comparator with its operands exchanged: descending order
ComesAfterDescending(a, b) == OrZero(b.distance) - OrZero(a.distance) > 0

\* a comparator that also moves an element behind its equals
ComesAfterOrEqual(a, b) == OrZero(a.distance) - OrZero(b.distance) >= 0

\* the comparator of line 127 puts a after b
ComesAfter(a, b) == OrZero(a.distance) - OrZero(b.distance) > 0

\* Array.prototype.sort is stable: an element goes behind every element the
\* comparator does not put after it
RECURSIVE InsertSorted(_, _)
InsertSorted(sorted, x) ==
    IF sorted = <<>> THEN <<x>>
    ELSE IF ComesAfter(Head(sorted), x) THEN <<x>> \o sorted
    ELSE <<Head(sorted)>> \o InsertSorted(Tail(sorted), x)

RECURSIVE SortByDistance(_)
SortByDistance(s) ==
    IF s = <<>> THEN <<>>
    ELSE InsertSorted(SortByDistance(SubSeq(s, 1, Len(s) - 1)), s[Len(s)])

\* centersWithDistance (lines 107-127)
centersWithDistance(cs, location, r) ==
    LET valid == validCenters(cs)
        mapped == [i \in 1..Len(valid) |-> WithDistance(valid[i], location)]
    IN  SortByDistance(SelectSeq(mapped, LAMBDA center : withinRadius(center, r)))

\* the distance assigned to the loaded record itself instead of a copy
centersWithDistanceAssigned(cs, location) ==
    [i \in 1..Len(cs) |->
        IF TruthyNumber(cs[i].latitude) /\ TruthyNumber(cs[i].longitude)
        THEN WithDistance(cs[i], location)
        ELSE cs[i]]

\* the loaded records after lines 104-127: filter and map return new arrays,
\* the callback of map builds a new object by spread, and sort works on the
\* array filter returned; nothing is assigned to centers or to its elements
centersAfterSearch(cs, location) == cs

\* finalFiltered (lines 129-149)
finalFiltered(withDistance, f) ==
    IF hasAnyFilter(f)
    THEN SelectSeq(withDistance, LAMBDA center :
             hasNoServiceData(center) \/ MatchesFilter(f, center))
    ELSE withDistance

----------------------------------------------------------------------------
(* utils/analytics.ts *)

\* String.prototype.charCodeAt on the characters of the model
CharCode(ch) ==
    CASE ch = "0" -> 48 [] ch = "1" -> 49 [] ch = "2" -> 50 [] ch = "3" -> 51
      [] ch = "4" -> 52 [] ch = "5" -> 53 [] ch = "6" -> 54 [] ch = "7" -> 55
      [] ch = "8" -> 56 [] ch = "9" -> 57 [] ch = " " -> 32 [] ch = "-" -> 45
      [] ch = "." -> 46 [] ch = "O" -> 79 [] ch = "a" -> 97 [] ch = "b" -> 98
      [] ch = "c" -> 99 [] ch = "d" -> 100 [] ch = "e" -> 101

\* a number as the 32-bit signed integer the bitwise operators produce.
\* The input box holds at most five characters (App.tsx line 212), so that
\* remaining has at most two and the hash stays far below 2^31: the
\* conversion leaves such a number as it is
ToInt32(x) == x

\* the loop of lines 114-118 over the characters of remaining
RECURSIVE HashChars(_, _)
HashChars(hash, remaining) ==
    IF remaining = <<>> THEN hash
    ELSE HashChars(ToInt32((ToInt32(hash * 32) - hash) + CharCode(Head(remaining))),
                   Tail(remaining))

Base36Digits ==
    <<"0","1","2","3","4","5","6","7","8","9","a","b","c","d","e","f","g","h",
      "i","j","k","l","m","n","o","p","q","r","s","t","u","v","w","x","y","z">>

\* Number.prototype.toString(36) of a non-negative integer
RECURSIVE ToBase36(_)
ToBase36(n) ==
    IF n < 36 THEN <<Base36Digits[n + 1]>>
    ELSE ToBase36(n \div 36) \o <<Base36Digits[(n % 36) + 1]>>

Abs(x) == IF x < 0 THEN 0 - x ELSE x

\* hashZipcode (lines 109-120): the first three characters in clear, a
\* hyphen, and the hash of the other characters
hashZipcode(zip) ==
    IF Len(zip) < 3 THEN <<"*", "*", "*">>
    ELSE SubSeq(zip, 1, 3) \o <<"-">> \o
         ToBase36(Abs(HashChars(0, SubSeq(zip, 4, Len(zip)))))

\* the parameters of the zipcode_search event (lines 50-57)
ZipcodeSearchEvent(zip, r, resultsCount, serviceFilters) ==
    [zipcode |-> zip, radius |-> r, results_count |-> resultsCount,
     service_filters |-> serviceFilters, zipcode_hash |-> hashZipcode(zip)]

\* trackZipcodeSearch (lines 45-58): the events passed to window.gtag after
\* the call, sent being those passed before it
trackZipcodeSearch(sent, enabled, zip, r, resultsCount, serviceFilters) ==
    IF ~enabled THEN sent
    ELSE Append(sent, ZipcodeSearchEvent(zip, r, resultsCount, serviceFilters))

\* activeFilters (App.tsx lines 159-163): pharmacy is not pushed
activeFilters(f) ==
    (IF f["primary_care"] THEN <<"primary_care">> ELSE <<>>) \o
    (IF f["dental_care"] THEN <<"dental_care">> ELSE <<>>) \o
    (IF f["vision"] THEN <<"vision">> ELSE <<>>) \o
    (IF f["behavioral_health"] THEN <<"behavioral_health">> ELSE <<>>)

----------------------------------------------------------------------------
(* App.tsx, continued *)

\* a || b: a when a is a non-empty string, else b
OrElse(a, b) == IF TruthyString(a) THEN a ELSE b

\* displayTypes of HealthCenterDetail (main.tsx line 69)
displayTypes(center) ==
    OrElse(center.all_services,
           OrElse(center.final_types, OrElse(center.openai_types, center.types)))

\* the text after "Services:" on a card of HealthCenterList (part_006 lines
\* 148-152); "" when the paragraph is not rendered
listServices(center) ==
    LET text == OrElse(center.all_services,
                       OrElse(center.final_types,
                              OrElse(center.openai_types, center.types)))
    IN  IF TruthyString(text) THEN text ELSE ""

\* the text after "Services:" on a card of the HealthCenterList of
\* components/HealthCenterList.tsx (lines 45-49); "" when the paragraph is
\* not rendered
listTypes(center) == IF TruthyString(center.types) THEN center.types ELSE ""

SearchIdle ==
    [pc |-> "idle", zipcode |-> <<>>, radius |-> DefaultRadius,
     filter |-> NoFilter, location |-> null]

\* the state after construction (lines 15-29); the data file is an input
Init ==
    /\ csv \in CsvFiles
    /\ centers = <<>>
    /\ filteredCenters = <<>>
    /\ selectedCenter = NoCenter
    /\ zipcode = <<>>
    /\ searchZipcode = <<>>
    /\ loading = TRUE
    /\ searching = FALSE
    /\ error = NoError
    /\ radius = DefaultRadius
    /\ filter = NoFilter
    /\ search = SearchIdle
    /\ geo = GeoIdle
    /\ userActions = 0
    /\ gtag = TRUE
    /\ gtagEvents = <<>>
    /\ recentRequest = FALSE
    /\ classification = null

\* loadHealthCenters settles (lines 34-51). A fetch or parse that fails
\* makes loadHealthCenters return [] (csvLoader.ts lines 56-62)
LoadSettles ==
    /\ loading
    /\ \E data \in {loadHealthCenters(csv), <<>>} :
          IF Len(data) > 0
          THEN /\ centers' = data
               /\ filteredCenters' = FilterEffect(data, FALSE, searchZipcode, filter, data)
               /\ error' = error
          ELSE /\ error' = "noData"
               /\ UNCHANGED <<centers, filteredCenters>>
    /\ loading' = FALSE
    /\ UNCHANGED <<csv, selectedCenter, zipcode, searchZipcode, searching,
                   radius, filter, search, geo, userActions, gtag, gtagEvents, recentRequest,
                   classification>>

\* the zipcode input box takes at most five characters (maxLength, line 212)
TypedZipcodes ==
    { <<"0","2","1","3","8">>, <<"1","0","0","0","1">>, <<"0","2","1","9","9">>,
      <<"0","2","1","3">>, <<" "," ">>, <<>> }

\* onChange of the zipcode input (line 209)
TypeZipcode ==
    /\ ~loading /\ ~searching
    /\ userActions < MaxUserActions
    /\ \E z \in TypedZipcodes : z # zipcode /\ zipcode' = z
    /\ userActions' = userActions + 1
    /\ UNCHANGED <<csv, centers, filteredCenters, selectedCenter, searchZipcode,
                   loading, searching, error, radius, filter, search, geo,
                   gtag, gtagEvents, recentRequest,
                   classification>>

\* onChange of the radius select (line 221)
SetRadius ==
    /\ ~loading /\ ~searching
    /\ userActions < MaxUserActions
    /\ \E r \in RadiusOptions : r # radius /\ radius' = r
    /\ userActions' = userActions + 1
    /\ UNCHANGED <<csv, centers, filteredCenters, selectedCenter, zipcode,
                   searchZipcode, loading, searching, error, filter, search, geo,
                   gtag, gtagEvents, recentRequest,
                   classification>>

\* onChange of a service type checkbox (lines 238-293), and the effect its
\* render runs
ToggleFilter ==
    /\ ~loading
    /\ userActions < MaxUserActions
    /\ \E c \in Capabilities :
          /\ filter' = [filter EXCEPT ![c] = ~filter[c]]
          /\ filteredCenters' =
                FilterEffect(centers, loading, searchZipcode, filter', filteredCenters)
    /\ userActions' = userActions + 1
    /\ UNCHANGED <<csv, centers, selectedCenter, zipcode, searchZipcode, loading,
                   searching, error, radius, search, geo, gtag, gtagEvents, recentRequest,
                   classification>>

\* onCenterClick and onClose (lines 329, 335, 353)
SelectCenter ==
    /\ ~loading
    /\ userActions < MaxUserActions
    /\ \E name \in {filteredCenters[i].name : i \in 1..Len(filteredCenters)} \cup {NoCenter} :
          name # selectedCenter /\ selectedCenter' = name
    /\ userActions' = userActions + 1
    /\ UNCHANGED <<csv, centers, filteredCenters, zipcode, searchZipcode, loading,
                   searching, error, radius, filter, search, geo, gtag, gtagEvents, recentRequest,
                   classification>>

\* handleSearch up to its await (lines 78-92), with geocodeZipcode up to its
\* own await. The button and the input are disabled while loading or
\* searching (lines 213, 302); Enter in the input reaches handleSearch with
\* an empty zipcode (line 183)
HandleSearch ==
    /\ ~loading /\ ~searching
    /\ gtagEvents' = <<>>
    /\ IF TrimIsEmpty(zipcode)
       THEN /\ error' = "enterZipcode"
            /\ UNCHANGED <<selectedCenter, searching, search, geo, recentRequest>>
       ELSE /\ searching' = TRUE
            /\ error' = NoError
            /\ selectedCenter' = NoCenter
            /\ search' = [pc |-> "awaiting", zipcode |-> zipcode, radius |-> radius,
                          filter |-> filter, location |-> null]
            /\ geo' = GeocodeEnter(zipcode)
            /\ recentRequest' = (recentRequest \/ RequestStarted(geo'))
    /\ UNCHANGED <<csv, centers, filteredCenters, zipcode, searchZipcode, loading,
                   radius, filter, userActions, gtag, classification>>

\* the remote service answers the request of geocodeZipcode (the await of
\* line 18 settles). The request carries no timeout and no abort signal:
\* nothing but this answer ends the wait
RemoteReply ==
    /\ geo.pc = "fetching"
    /\ \E reply \in RemoteReplies : geo' = [geo EXCEPT !.pc = "replied", !.reply = reply]
    /\ UNCHANGED <<appVars, recentRequest,
                   classification>>

\* geocodeZipcode continues after its await and runs to its return
GeocodeContinue ==
    /\ geo.pc = "replied"
    /\ geo' = GeocodeResume(geo, geo.reply)
    /\ UNCHANGED <<appVars, recentRequest,
                   classification>>

\* the message handleSearch leaves after a search that resolved (lines
\* 170-174). The block of line 170 lacks its closing brace; the two tests
\* are read in sequence, as they are indented, the later setError winning
ErrorAfterSearch(withDistance, final) ==
    IF Len(final) = 0 THEN "noCentersMatching"
    ELSE IF Len(withDistance) = 0 THEN "noCentersInRadius"
    ELSE NoError

\* an unresolved search that empties the displayed list
filteredCentersClearedWhenUnresolved(location, shown, final) ==
    IF location = null THEN <<>> ELSE final

\* the displayed list when handleSearch ends: the unresolved branch returns
\* at line 98 before any setFilteredCenters, line 156 sets finalFiltered
filteredCentersAtEnd(location, shown, final) ==
    IF location = null THEN shown ELSE final

\* handleSearch without its finally block: only the unresolved branch
\* (line 97) resets the flag
searchingWithoutFinally(outcome) == outcome # "unresolved"

\* the searching flag when handleSearch ends (lines 97, 178-180); outcome is
\* "unresolved", "resolved" or "threw"
searchingAtEnd(outcome) == FALSE

\* handleSearch after its await (lines 93-180)
HandleSearchResume ==
    /\ search.pc = "awaiting"
    /\ geo.pc = "returned"
    /\ LET location == geo.result
       IN  IF location = null
           THEN /\ error' = "notFound"
                /\ filteredCenters' =
                      filteredCentersAtEnd(location, filteredCenters, <<>>)
                /\ UNCHANGED <<searchZipcode, gtagEvents>>
           ELSE LET withDistance == centersWithDistance(centers, location, search.radius)
                    final == finalFiltered(withDistance, search.filter)
                IN  /\ searchZipcode' = search.zipcode
                    /\ filteredCenters' =
                          filteredCentersAtEnd(location, filteredCenters, final)
                    /\ error' = ErrorAfterSearch(withDistance, final)
                    /\ gtagEvents' =
                          trackZipcodeSearch(
                              trackZipcodeSearch(gtagEvents, gtag, search.zipcode,
                                                 search.radius, Len(final),
                                                 activeFilters(search.filter)),
                              gtag, search.zipcode, search.radius,
                              Len(withDistance), <<>>)
    /\ centers' = IF geo.result = null THEN centers
                  ELSE centersAfterSearch(centers, geo.result)
    /\ searching' = searchingAtEnd(IF geo.result = null THEN "unresolved"
                                   ELSE "resolved")
    /\ search' = [search EXCEPT !.pc = "done", !.location = geo.result]
    /\ geo' = GeoIdle
    /\ UNCHANGED <<csv, selectedCenter, zipcode, loading, radius, filter,
                   userActions, gtag, recentRequest,
                   classification>>

\* handleSearch after its await when window.gtag, a function of the page's
\* analytics script, throws in the first trackZipcodeSearch call (line 165):
\* lines 100-156 have run, the catch of lines 174-177 sets the message and
\* the finally of lines 178-180 runs
HandleSearchCatch ==
    /\ search.pc = "awaiting"
    /\ geo.pc = "returned"
    /\ geo.result # null
    /\ gtag
    /\ LET withDistance == centersWithDistance(centers, geo.result, search.radius)
       IN  filteredCenters' = finalFiltered(withDistance, search.filter)
    /\ searchZipcode' = search.zipcode
    /\ error' = "searchError"
    /\ centers' = centersAfterSearch(centers, geo.result)
    /\ searching' = searchingAtEnd("threw")
    /\ search' = [search EXCEPT !.pc = "done", !.location = geo.result]
    /\ geo' = GeoIdle
    /\ UNCHANGED <<csv, selectedCenter, zipcode, loading, radius, filter,
                   userActions, gtag, gtagEvents, recentRequest, classification>>

Next ==
    \/ LoadSettles
    \/ TypeZipcode
    \/ SetRadius
    \/ ToggleFilter
    \/ SelectCenter
    \/ HandleSearch
    \/ RemoteReply
    \/ GeocodeContinue
    \/ HandleSearchResume

\* the application from its construction
Spec == Init /\ [][Next]_vars

\* the application while it loads the data file and shows the loaded
\* records under the service type checkboxes, before any search
LoadNext ==
    \/ LoadSettles
    \/ ToggleFilter

SpecLoad == Init /\ [][LoadNext]_vars

----------------------------------------------------------------------------
(* The search alone: the application once the data file is loaded and the  *)
(* user has typed a zipcode and chosen a radius and service types          *)

SearchZipcodes == { <<"0","2","1","3","8">>, <<"1","0","0","0","1">> }

SearchInit ==
    /\ csv \in CsvFiles
    /\ centers = loadHealthCenters(csv)
    /\ filter \in [Capabilities -> BOOLEAN]
    /\ radius \in RadiusOptions
    /\ zipcode \in SearchZipcodes
    /\ filteredCenters = FilterEffect(centers, FALSE, <<>>, filter, centers)
    /\ selectedCenter = NoCenter
    /\ searchZipcode = <<>>
    /\ loading = FALSE
    /\ searching = FALSE
    /\ error = IF Len(centers) = 0 THEN "noData" ELSE NoError
    /\ search = SearchIdle
    /\ geo = GeoIdle
    /\ userActions = 0
    /\ gtag = TRUE
    /\ gtagEvents = <<>>
    /\ recentRequest = FALSE
    /\ classification = null

SearchNext ==
    \/ HandleSearch
    \/ RemoteReply
    \/ GeocodeContinue
    \/ HandleSearchResume

SpecSearch == SearchInit /\ [][SearchNext]_vars

\* the search with analytics configured or not: the measurement id comes
\* from the environment of the build (analytics.ts line 8)
AnalyticsInit ==
    /\ csv \in CsvFiles
    /\ centers = loadHealthCenters(csv)
    /\ filter \in [Capabilities -> BOOLEAN]
    /\ radius = DefaultRadius
    /\ zipcode \in SearchZipcodes
    /\ filteredCenters = FilterEffect(centers, FALSE, <<>>, filter, centers)
    /\ selectedCenter = NoCenter
    /\ searchZipcode = <<>>
    /\ loading = FALSE
    /\ searching = FALSE
    /\ error = IF Len(centers) = 0 THEN "noData" ELSE NoError
    /\ search = SearchIdle
    /\ geo = GeoIdle
    /\ userActions = 0
    /\ gtag \in BOOLEAN
    /\ gtagEvents = <<>>
    /\ recentRequest = FALSE
    /\ classification = null

SpecAnalytics == AnalyticsInit /\ [][SearchNext]_vars

\* the search under the clock: one second goes by without a new request.
\* Nothing in handleSearch or geocodeZipcode reads a clock or waits
SecondPasses ==
    /\ recentRequest
    /\ recentRequest' = FALSE
    /\ UNCHANGED <<appVars, geo, classification>>

RateInit ==
    /\ csv \in CsvFiles
    /\ centers = loadHealthCenters(csv)
    /\ filter = NoFilter
    /\ radius = DefaultRadius
    /\ zipcode \in SearchZipcodes
    /\ filteredCenters = FilterEffect(centers, FALSE, <<>>, filter, centers)
    /\ selectedCenter = NoCenter
    /\ searchZipcode = <<>>
    /\ loading = FALSE
    /\ searching = FALSE
    /\ error = IF Len(centers) = 0 THEN "noData" ELSE NoError
    /\ search = SearchIdle
    /\ geo = GeoIdle
    /\ userActions = 0
    /\ gtag = TRUE
    /\ gtagEvents = <<>>
    /\ recentRequest = FALSE
    /\ classification = null

RateNext ==
    \/ HandleSearch
    \/ RemoteReply
    \/ GeocodeContinue
    \/ HandleSearchResume
    \/ SecondPasses

SpecRate == RateInit /\ [][RateNext]_vars

\* rows of the data file in the searches checked for progress
MaxFairRows == 1

\* searches over a short data file in which window.gtag may throw. The event
\* loop runs a continuation once the promise it awaits has settled; nothing
\* is assumed of the remote service
SearchFairInit == RateInit /\ Len(csv) <= MaxFairRows

SearchFairNext ==
    \/ HandleSearch
    \/ RemoteReply
    \/ GeocodeContinue
    \/ HandleSearchResume
    \/ HandleSearchCatch

SpecSearchFair ==
    /\ SearchFairInit /\ [][SearchFairNext]_vars
    /\ WF_vars(GeocodeContinue)
    /\ WF_vars(HandleSearchResume \/ HandleSearchCatch)

\* searches with the default radius while the user ticks and unticks the
\* service type checkboxes, which stay enabled during a search
FilterNext ==
    \/ ToggleFilter
    \/ HandleSearch
    \/ RemoteReply
    \/ GeocodeContinue
    \/ HandleSearchResume

\* every row of the data file
FilterInit == RateInit /\ csv = PickRows(1..RowCount)

SpecFilter == FilterInit /\ [][FilterNext]_vars

\* the search invoked with a radius that is not an option of the select:
\* radius is a number (line 23) that handleSearch reads at lines 120 and 123
\* without any test of its sign
NonPositiveRadii == {0, -1}

RadiusInit ==
    /\ csv \in CsvFiles
    /\ centers = loadHealthCenters(csv)
    /\ filter \in [Capabilities -> BOOLEAN]
    /\ radius \in NonPositiveRadii
    /\ zipcode \in SearchZipcodes
    /\ filteredCenters = FilterEffect(centers, FALSE, <<>>, filter, centers)
    /\ selectedCenter = NoCenter
    /\ searchZipcode = <<>>
    /\ loading = FALSE
    /\ searching = FALSE
    /\ error = IF Len(centers) = 0 THEN "noData" ELSE NoError
    /\ search = SearchIdle
    /\ geo = GeoIdle
    /\ userActions = 0
    /\ gtag = TRUE
    /\ gtagEvents = <<>>
    /\ recentRequest = FALSE
    /\ classification = null

SpecRadius == RadiusInit /\ [][SearchNext]_vars

----------------------------------------------------------------------------
(* geocodeZipcode alone: calls with any input string                       *)

ZipcodeInputs ==
    { <<"0","2","1","3","8">>, <<"0","2","1","3","9">>, <<"0","2","1","1","8">>,
      <<"0","1","4","2","0">>, <<"0","2","1","4","5">>,
      <<"0","2","1","9","9">>, <<"0","2","1","0","1">>,
      <<"1","0","0","0","1">>, <<"9","0","2","1","0">>,
      <<"0","2","1","3","8",".","0">>, <<"2","1","3","8",".","0">>,
      <<" ","0","2","1","3","8">>, <<"0","2","1","3","8"," ">>,
      <<"0","2","1","-","3","8">>, <<"0","2","1"," ","9","9">>,
      <<"0","2","1","3","8","-">>,
      <<"0","2","1","3","8","-","1","2","3","4">>,
      <<"0","2","1","3">>, <<"0","2","1","3","8","0">>,
      <<"O","2","1","3","8">>, <<"a","b","c","d","e">>, <<>> }

GeocodeInit == Init /\ csv = <<>>

\* a caller other than handleSearch calls geocodeZipcode(input)
GeocodeCall ==
    /\ geo.pc = "idle"
    /\ search.pc = "idle"
    /\ \E input \in ZipcodeInputs : geo' = GeocodeEnter(input)
    /\ recentRequest' = (recentRequest \/ RequestStarted(geo'))
    /\ UNCHANGED <<appVars, classification>>

GeocodeNext ==
    \/ GeocodeCall
    \/ RemoteReply
    \/ GeocodeContinue

SpecGeocode == GeocodeInit /\ [][GeocodeNext]_vars

\* the same calls under the scheduling of the event loop: once the awaited
\* answer has arrived the continuation of geocodeZipcode runs. Whether and
\* when the remote service answers is not in the hands of the program, so
\* no fairness is stated for RemoteReply
SpecGeocodeFair == GeocodeInit /\ [][GeocodeNext]_vars /\ WF_vars(GeocodeContinue)

----------------------------------------------------------------------------
(* classify alone: calls with any text of up to MaxTokens tokens           *)

\* the tokens a service text is made of
TokenTexts ==
    << <<"E","y","e"," ","C","a","r","e">>,
       <<" ","d","e","n","t","a","l"," ","c","a","r","e">>,
       <<"P","R","I","M","A","R","Y"," ","C","A","R","E">>,
       <<"O","p","t","o","m","e","t","r","y"," ">>,
       <<"M","e","n","t","a","l"," ","H","e","a","l","t","h">>,
       <<"P","h","a","r","m","a","c","y">>,
       <<"P","o","d","i","a","t","r","y">>,
       <<"P","h","y","s","i","c","a","l"," ","T","h","e","r","a","p","y">>,
       <<"D","e","n","t","a","l","/","V","i","s","i","o","n">>,
       <<>> >>

\* the text whose tokens are TokenTexts[picked[1]], TokenTexts[picked[2]], ...
RECURSIVE JoinTokens(_)
JoinTokens(picked) ==
    IF picked = <<>> THEN <<>>
    ELSE IF Len(picked) = 1 THEN TokenTexts[picked[1]]
    ELSE TokenTexts[picked[1]] \o <<",">> \o JoinTokens(Tail(picked))

ServiceTexts ==
    UNION { [1..n -> 1..Len(TokenTexts)] : n \in 0..MaxTokens }

ClassifyCall ==
    /\ classification = null
    /\ \E picked \in ServiceTexts :
          classification' = [picked |-> picked, text |-> JoinTokens(picked),
                             flags |-> classify(JoinTokens(picked))]
    /\ UNCHANGED <<appVars, geo, recentRequest>>

ClassifyNext ==
    \/ ClassifyCall

SpecClassify == GeocodeInit /\ [][ClassifyNext]_vars

----------------------------------------------------------------------------
(* Properties of the search (SpecSearch)                                   *)

Names(s) == {s[i].name : i \in 1..Len(s)}

IndexIn(s, name) == CHOOSE i \in 1..Len(s) : s[i].name = name

\* a handleSearch call has completed with a resolved location: the
\* displayed list is the result of that search
SearchResolved == search.pc = "done" /\ search.location # null

AnyFilterSelected == \E c \in Capabilities : search.filter[c]

HasCoordinates(center) ==
    /\ center.latitude # 0 /\ center.latitude # NaN
    /\ center.longitude # 0 /\ center.longitude # NaN

DistanceTo(center) ==
    calculateDistance(search.location.latitude, search.location.longitude,
                      center.latitude, center.longitude)

InRadius(center) ==
    /\ HasCoordinates(center)
    /\ DistanceTo(center) # NaN
    /\ DistanceTo(center) <= search.radius * 100

HasServiceText(center) ==
    \/ center.all_services # "" \/ center.final_types # ""
    \/ center.openai_types # "" \/ center.types # ""

Has(center, c) ==
    CASE c = "primary_care" -> center.has_primary_care
      [] c = "dental_care" -> center.has_dental_care
      [] c = "vision" -> center.has_vision
      [] c = "behavioral_health" -> center.has_behavioral_health
      [] c = "pharmacy" -> center.has_pharmacy

InRadiusNames == {centers[i].name : i \in {j \in 1..Len(centers) : InRadius(centers[j])}}

\* C1: with no capability filter selected, the result of a search is
\* exactly the loaded records that have coordinates and lie within the
\* selected radius, boundary included, each once and with its distance
C1_ResultIsExactlyTheRadius ==
    (SearchResolved /\ ~AnyFilterSelected) =>
        /\ Names(filteredCenters) = InRadiusNames
        /\ Len(filteredCenters) = Cardinality(InRadiusNames)
        /\ \A k \in 1..Len(filteredCenters) :
              filteredCenters[k].distance =
                  DistanceTo(centers[IndexIn(centers, filteredCenters[k].name)])

\* a search without filter whose result holds a record exactly on the
\* boundary and leaves out a loaded record beyond the radius
C1_Witness ==
    /\ SearchResolved /\ ~AnyFilterSelected
    /\ Len(filteredCenters) >= 3
    /\ \E k \in 1..Len(filteredCenters) :
          filteredCenters[k].distance = search.radius * 100
    /\ \E i \in 1..Len(centers) : centers[i].name \notin Names(filteredCenters)

\* C2: the list a search produces is in non-decreasing order of distance,
\* also after the capability filter was applied
C2_ResultSortedByDistance ==
    SearchResolved =>
        \A i, j \in 1..Len(filteredCenters) :
            i < j => filteredCenters[i].distance <= filteredCenters[j].distance

\* a filtered search of three or more records at different distances, in
\* another order than the loaded records, and with a record within the
\* radius removed by the capability filter
C2_Witness ==
    /\ SearchResolved /\ AnyFilterSelected
    /\ Len(filteredCenters) >= 3
    /\ filteredCenters[1].distance < filteredCenters[Len(filteredCenters)].distance
    /\ \E i, j \in 1..Len(filteredCenters) :
          /\ i < j
          /\ IndexIn(centers, filteredCenters[i].name)
                > IndexIn(centers, filteredCenters[j].name)
    /\ InRadiusNames \ Names(filteredCenters) # {}

RowLacksCoordinates(row) ==
    \/ ~row.latitude.numeric \/ row.latitude.value = 0
    \/ ~row.longitude.numeric \/ row.longitude.value = 0

RowHasNoServiceText(row) ==
    row.all_services = "" /\ row.final_types = "" /\ row.openai_types = "" /\ row.types = ""

\* C3: a search never returns a record that lacks coordinates, whatever
\* the radius and the filters: every record of the result has a latitude
\* and a longitude, and is a row of the data file that has both
C3_ResultHasCoordinates ==
    SearchResolved =>
        \A k \in 1..Len(filteredCenters) :
            /\ HasCoordinates(filteredCenters[k])
            /\ \E i \in 1..Len(csv) :
                  /\ csv[i].name = filteredCenters[k].name
                  /\ ~RowLacksCoordinates(csv[i])

\* a filtered search over a data file that holds a row without coordinates
\* and without service text (exempt from capability filtering)
C3_Witness ==
    /\ SearchResolved /\ AnyFilterSelected
    /\ Len(filteredCenters) > 0
    /\ \E i \in 1..Len(csv) :
          RowLacksCoordinates(csv[i]) /\ RowHasNoServiceText(csv[i])

\* C4: with a capability filter selected, a record within the radius that
\* has service type text is kept iff one of the selected capabilities is
\* true for it
C4_KeptIffAnySelectedCapability ==
    (SearchResolved /\ AnyFilterSelected) =>
        \A i \in 1..Len(centers) :
            (InRadius(centers[i]) /\ HasServiceText(centers[i])) =>
                (centers[i].name \in Names(filteredCenters)
                    <=> \E c \in Capabilities :
                            search.filter[c] /\ Has(centers[i], c))

\* two filters selected, a kept record that has one of them and not the
\* other, and a record with service text that is dropped
C4_Witness ==
    /\ SearchResolved
    /\ \E i \in 1..Len(centers) :
          /\ HasServiceText(centers[i])
          /\ centers[i].name \in Names(filteredCenters)
          /\ \E c1, c2 \in Capabilities :
                /\ search.filter[c1] /\ search.filter[c2]
                /\ Has(centers[i], c1) /\ ~Has(centers[i], c2)
    /\ \E i \in 1..Len(centers) :
          /\ InRadius(centers[i]) /\ HasServiceText(centers[i])
          /\ centers[i].name \notin Names(filteredCenters)

\* C5: a record within the radius without any service type text passes
\* the capability filtering for every selection of filters
C5_NoServiceTextIsExempt ==
    (SearchResolved /\ AnyFilterSelected) =>
        \A i \in 1..Len(centers) :
            (InRadius(centers[i]) /\ ~HasServiceText(centers[i])) =>
                centers[i].name \in Names(filteredCenters)

\* a filtered search that kept a record without service text none of whose
\* capability flags is true
C5_Witness ==
    /\ SearchResolved /\ AnyFilterSelected
    /\ \E k \in 1..Len(filteredCenters) :
          /\ ~HasServiceText(filteredCenters[k])
          /\ \A c \in Capabilities : ~Has(filteredCenters[k], c)

\* C6: two records of a result at equal distances are in the order they
\* have among the loaded records
C6_TiesKeepInputOrder ==
    SearchResolved =>
        \A i, j \in 1..Len(filteredCenters) :
            (i < j /\ filteredCenters[i].distance = filteredCenters[j].distance) =>
                IndexIn(centers, filteredCenters[i].name)
                    < IndexIn(centers, filteredCenters[j].name)

\* a result with two records at the same distance and a third record that
\* lies between them among the loaded records
C6_Witness ==
    /\ SearchResolved
    /\ \E i, j, k \in 1..Len(filteredCenters) :
          /\ i < j
          /\ filteredCenters[i].distance = filteredCenters[j].distance
          /\ filteredCenters[k].distance # filteredCenters[i].distance
          /\ IndexIn(centers, filteredCenters[i].name)
                < IndexIn(centers, filteredCenters[k].name)
          /\ IndexIn(centers, filteredCenters[k].name)
                < IndexIn(centers, filteredCenters[j].name)

----------------------------------------------------------------------------
(* Properties of geocodeZipcode (SpecGeocode)                              *)

DigitCount(s) == Cardinality({i \in 1..Len(s) : s[i] \in Digits})

\* the digits of s, in order
RECURSIVE DigitsOf(_)
DigitsOf(s) ==
    IF s = <<>> THEN <<>>
    ELSE IF Head(s) \in Digits THEN <<Head(s)>> \o DigitsOf(Tail(s))
    ELSE DigitsOf(Tail(s))

TableZipcodes == {e.zip : e \in commonZipcodes}

GeocodeReturned == geo.pc = "returned"

\* the remote service gave no result: it threw, answered non-OK, sent an
\* unreadable body or sent zero results
RemoteGaveNoResult ==
    \/ geo.reply.kind \in {"throws", "notok", "badjson"}
    \/ geo.reply.kind = "data" /\ geo.reply.data = <<>>
    \/ geo.reply.kind = "data" /\ geo.reply.data = <<null>>

\* C7: for every 5-digit postal code of the static table geocodeZipcode
\* returns a location, never a failure, whatever the remote lookup does
C7_TableZipcodeAlwaysResolves ==
    (GeocodeReturned /\ geo.zipcode \in TableZipcodes) => geo.result # null

\* a table zipcode resolved from the table after the remote service
\* answered with a non-OK response
C7_Witness ==
    /\ GeocodeReturned /\ geo.zipcode \in TableZipcodes
    /\ geo.reply.kind = "notok"
    /\ geo.result # null
    /\ geo.result.city = "Cambridge" /\ geo.result.state = "MA"

\* C8: the tiers are tried in the order remote lookup, static table, prefix
\* heuristic, and the first success wins: a remote result is returned
\* without any fallback tier; the table is consulted only after the remote
\* lookup gave no result; the prefix heuristic only for a code that is not
\* in the table
C8_TiersInOrderFirstSuccessWins ==
    (GeocodeReturned /\ DigitCount(geo.zipcode) = 5) =>
        /\ geo.tiers \in {<<"remote">>, <<"remote", "table">>,
                          <<"remote", "table", "prefix">>}
        /\ ~RemoteGaveNoResult =>
              /\ geo.tiers = <<"remote">>
              /\ geo.result # null
              /\ geo.result.latitude = parseFloat(geo.reply.data[1].lat)
              /\ geo.result.longitude = parseFloat(geo.reply.data[1].lon)
        /\ RemoteGaveNoResult =>
              /\ geo.cleanZip \in TableZipcodes =>
                    /\ geo.tiers = <<"remote", "table">>
                    /\ \E e \in commonZipcodes :
                          /\ e.zip = geo.cleanZip
                          /\ geo.result.latitude = e.lat
                          /\ geo.result.longitude = e.lng
              /\ geo.cleanZip \notin TableZipcodes =>
                    geo.tiers = <<"remote", "table", "prefix">>

\* a zipcode of the static table for which the remote service sent two
\* results: the first one is returned and no fallback tier was consulted
C8_Witness ==
    /\ GeocodeReturned /\ geo.cleanZip \in TableZipcodes
    /\ geo.reply.kind = "data" /\ Len(geo.reply.data) = 2
    /\ geo.tiers = <<"remote">>
    /\ geo.result.latitude = geo.reply.data[1].lat.value
    /\ \A e \in commonZipcodes : geo.result.latitude # e.lat

\* s without a final ".0"
WithoutPointZero(s) ==
    IF Len(s) >= 2 /\ s[Len(s) - 1] = "." /\ s[Len(s)] = "0"
    THEN SubSeq(s, 1, Len(s) - 2)
    ELSE s

WithoutSpacesAndHyphens(s) == SelectSeq(s, LAMBDA ch : ch \notin {" ", "-"})

\* the 5-digit code an input of spaces, hyphens, five digits and an
\* optional final ".0" stands for; <<>> for any other input
PostalCodeOf(s) ==
    LET code == WithoutSpacesAndHyphens(WithoutPointZero(s))
    IN  IF Len(code) = 5 /\ \A i \in 1..5 : code[i] \in Digits THEN code ELSE <<>>

\* C9 as stated: an input that consists of a 5-digit postal code plus
\* spaces, hyphens or a trailing ".0" is normalised to that code and
\* resolution proceeds with it
C9_AsStated ==
    (geo.pc # "idle" /\ PostalCodeOf(geo.zipcode) # <<>>) =>
        /\ geo.cleanZip = PostalCodeOf(geo.zipcode)
        /\ geo.tiers # <<>>

\* C9 (amended): an input of exactly five digits and any number of
\* non-digit characters (spaces, hyphens) is normalised to its five digits
\* and resolution proceeds with that code; the 0 of a trailing ".0" counts
\* as a digit, so a 5-digit code followed by ".0" fails as invalid format
C9_FiveDigitsAmongNonDigits ==
    geo.pc # "idle" =>
        /\ DigitCount(geo.zipcode) = 5 =>
              /\ geo.cleanZip = DigitsOf(geo.zipcode)
              /\ Len(geo.cleanZip) = 5
              /\ geo.tiers # <<>> /\ geo.tiers[1] = "remote"
        /\ (PostalCodeOf(geo.zipcode) # <<>>
              /\ WithoutPointZero(geo.zipcode) # geo.zipcode) =>
              /\ geo.pc = "returned" /\ geo.result = null /\ geo.tiers = <<>>

\* an input with a space in front of a 5-digit code of the table, resolved
\* from the table under that code
C9_Witness ==
    /\ GeocodeReturned
    /\ Len(geo.zipcode) > 5 /\ DigitCount(geo.zipcode) = 5
    /\ geo.cleanZip \in TableZipcodes
    /\ geo.result # null /\ geo.result.zipcode = geo.cleanZip
    /\ geo.tiers = <<"remote", "table">>

\* C10: an input that does not hold exactly five digits fails at once: no
\* remote request is issued, and neither the static table nor the prefix
\* heuristic is consulted
C10_InvalidFormatFailsImmediately ==
    (geo.pc # "idle" /\ DigitCount(geo.zipcode) # 5) =>
        /\ geo.pc = "returned"
        /\ geo.result = null
        /\ geo.tiers = <<>>
        /\ geo.reply = null

\* the call with a 6-digit input that starts with a code of the table
C10_Witness ==
    /\ GeocodeReturned
    /\ DigitCount(geo.zipcode) = 6
    /\ SubSeq(geo.cleanZip, 1, 5) \in TableZipcodes
    /\ geo.result = null /\ geo.tiers = <<>>

\* C11: for every 5-digit postal code that is not in the static table and
\* whose first three digits are 021, geocodeZipcode returns, when the remote
\* lookup yields no result, the fixed centroid of the region tagged with the
\* generic locality label "Boston Area", and not a failure
C11_PrefixGivesRegionCentroid ==
    (/\ GeocodeReturned /\ DigitCount(geo.zipcode) = 5
     /\ geo.cleanZip \notin TableZipcodes
     /\ SubSeq(geo.cleanZip, 1, 3) = <<"0", "2", "1">>
     /\ RemoteGaveNoResult) =>
        /\ geo.result # null
        /\ geo.result.latitude = 423601 /\ geo.result.longitude = -710589
        /\ geo.result.city = "Boston Area" /\ geo.result.state = "MA"
        /\ geo.result.zipcode = geo.cleanZip

\* 02199 is not in the table; the request threw and the centroid came back
C11_Witness ==
    /\ GeocodeReturned
    /\ geo.cleanZip = <<"0","2","1","9","9">>
    /\ geo.reply.kind = "throws"
    /\ geo.result # null /\ geo.result.city = "Boston Area"
    /\ geo.tiers = <<"remote", "table", "prefix">>

\* C12: when the remote lookup yields no result and the 5-digit postal code
\* is neither in the static table nor begins with 021, geocodeZipcode
\* returns failure; and whenever no tier resolved the code the result is a
\* failure, never a location carrying (0,0) or another made-up coordinate
C12_ExhaustedTiersFail ==
    GeocodeReturned =>
        /\ (/\ DigitCount(geo.zipcode) = 5 /\ RemoteGaveNoResult
            /\ geo.cleanZip \notin TableZipcodes
            /\ SubSeq(geo.cleanZip, 1, 3) # <<"0", "2", "1">>) => geo.result = null
        /\ (geo.result # null /\ (geo.reply = null \/ RemoteGaveNoResult)) =>
              \/ \E e \in commonZipcodes :
                    /\ e.zip = geo.cleanZip
                    /\ geo.result.latitude = e.lat /\ geo.result.longitude = e.lng
              \/ /\ SubSeq(geo.cleanZip, 1, 3) = <<"0", "2", "1">>
                 /\ geo.result.latitude = 423601 /\ geo.result.longitude = -710589

\* 90210: the remote service sent zero results, both fallback tiers were
\* consulted and the call returned failure
C12_Witness ==
    /\ GeocodeReturned
    /\ geo.cleanZip = <<"9","0","2","1","0">>
    /\ geo.reply.kind = "data" /\ geo.reply.data = <<>>
    /\ geo.tiers = <<"remote", "table", "prefix">>
    /\ geo.result = null

\* the remote tier failed with an error: a network exception, a non-OK
\* response, an unreadable body, or a body without a readable result
RemoteErred ==
    \/ geo.reply.kind \in {"throws", "notok", "badjson"}
    \/ geo.reply.kind = "data" /\ geo.reply.data = <<null>>

\* C13: geocodeZipcode never throws or rejects: every error of the remote
\* tier (network exception, non-OK response, unreadable response body) is
\* caught and falls through to the static table, so that the call ends with
\* a location or with failure
C13_RemoteErrorsAreCaught ==
    /\ geo.pc \in {"idle", "fetching", "replied", "returned"}
    /\ (GeocodeReturned /\ geo.reply # null /\ RemoteErred) =>
          /\ Len(geo.tiers) >= 2
          /\ geo.tiers[1] = "remote" /\ geo.tiers[2] = "table"
          /\ geo.cleanZip \in TableZipcodes => geo.result # null
    /\ GeocodeReturned =>
          \/ geo.result = null
          \/ DOMAIN geo.result = {"zipcode", "latitude", "longitude", "city", "state"}

\* the body of the answer could not be read and the code begins with 021:
\* the exception was caught and the call returned the regional centroid
C13_Witness ==
    /\ GeocodeReturned
    /\ geo.reply # null /\ geo.reply.kind = "badjson"
    /\ geo.tiers = <<"remote", "table", "prefix">>
    /\ geo.result # null

\* C14 as stated: every call to geocodeZipcode eventually completes; a
\* remote service that never answers is cut off by a timeout and resolution
\* proceeds to the static table
C14_EveryCallCompletes ==
    (geo.pc = "fetching") ~> (geo.pc = "returned")

----------------------------------------------------------------------------
(* Properties of the application                                           *)

\* the block "No centers found within R miles of Z" is on screen (App.tsx
\* lines 341-348)
NoResultsBlockShown ==
    ~loading /\ Len(filteredCenters) = 0 /\ searchZipcode # <<>>

\* the last search ended without a location for its zipcode
SearchUnresolved == search.pc = "done" /\ search.location = null

\* C15: what the user sees after a search whose postal code could not be
\* resolved differs from what the user sees after a search that resolved
\* and found no center within the radius, in the message and in the result
\* state: the unresolved search shows the message "notFound" and no report
\* of an empty radius, the empty search shows a "no centers" message and
\* the report of the empty radius
C15_UnresolvedIsNotEmptyRadius ==
    /\ SearchUnresolved =>
          /\ error = "notFound"
          /\ ~NoResultsBlockShown
    /\ (SearchResolved /\ Len(filteredCenters) = 0) =>
          /\ error \in {"noCentersInRadius", "noCentersMatching"}
          /\ NoResultsBlockShown

C17_SearchLeavesLoadedRecords ==
    /\ centers = loadHealthCenters(csv)
    /\ \A i \in 1..Len(centers) : "distance" \notin DOMAIN centers[i]
    /\ SearchResolved =>
          \A i \in 1..Len(filteredCenters) :
              /\ "distance" \in DOMAIN filteredCenters[i]
              /\ \E j \in 1..Len(centers) :
                    \A k \in DOMAIN centers[j] : filteredCenters[i][k] = centers[j][k]

\* a resolved search whose result holds two records with their distances,
\* made after an earlier search, the loaded records being as loaded
C17_Witness ==
    /\ SearchResolved
    /\ searchZipcode # <<>>
    /\ Len(filteredCenters) >= 2
    /\ filteredCenters[2].distance > 0
    /\ Len(centers) > Len(filteredCenters)
    /\ centers = loadHealthCenters(csv)

\* degrees in the unit of the coordinates, 1/10000 degree
Degrees(d) == d * 10000

\* C18: every location geocodeZipcode returns, from any tier and for any
\* response of the remote service, has a latitude within [-90, 90] and a
\* longitude within [-180, 180]
C18_LocationInRange ==
    (GeocodeReturned /\ geo.result # null) =>
        /\ ~isNaN(geo.result.latitude) /\ ~isNaN(geo.result.longitude)
        /\ geo.result.latitude >= Degrees(-90) /\ geo.result.latitude <= Degrees(90)
        /\ geo.result.longitude >= Degrees(-180) /\ geo.result.longitude <= Degrees(180)

\* the precedence among the three fields: curated, else enriched, else
\* original
resolvePreferredText(curated, enriched, original) ==
    IF curated # "" THEN curated
    ELSE IF enriched # "" THEN enriched
    ELSE original

\* C19: every place that selects the service text of a record selects the
\* same string: final_types if non-empty, else openai_types if non-empty,
\* else types; hence the text that is displayed is empty exactly when the
\* search takes the record to have no service data
C19_OneServiceTextEverywhere ==
    \A i \in 1..Len(filteredCenters) :
        LET center == filteredCenters[i]
            text == resolvePreferredText(center.final_types, center.openai_types,
                                         center.types)
        IN  /\ displayTypes(center) = text
            /\ listServices(center) = text
            /\ listTypes(center) = text
            /\ hasNoServiceData(center) <=> text = ""

----------------------------------------------------------------------------
(* Properties of loadHealthCenters (SpecLoad)                              *)

\* the text 'true' in the letter cases the data file uses
TrueTexts == {"true", "TRUE", "True"}

\* the row of the data file a loaded record was read from
RowOf(center) == CHOOSE row \in {csv[i] : i \in 1..Len(csv)} : row.name = center.name

----------------------------------------------------------------------------
(* Properties of the analytics events (SpecAnalytics)                      *)

\* the fields of an event that hold text
TextFields(event) == DOMAIN event \ {"radius", "results_count"}

\* C21: the zipcode_search event never carries the searched zip code in
\* clear: no field of an event passed to the analytics service holds the
\* zip code of the search; the zip code appears in its hashed form only
C21_ZipcodeOnlyHashed ==
    \A i \in 1..Len(gtagEvents) :
        /\ \A k \in TextFields(gtagEvents[i]) : gtagEvents[i][k] # search.zipcode
        /\ gtagEvents[i].zipcode_hash = hashZipcode(search.zipcode)

\* C22: over any sequence of searches remote geocoding requests are issued
\* at most once per second: a step that starts a request is never taken
\* less than one second after the start of the request before it
C22_OneRequestPerSecond ==
    [][(geo.pc # "fetching" /\ geo'.pc = "fetching") => ~recentRequest]_vars

----------------------------------------------------------------------------
(* Properties of calculateDistance (SpecSearch)                            *)

\* the points a search computes distances between: the resolved location
\* and the loaded records
SearchPoints ==
    {<<centers[i].latitude, centers[i].longitude>> : i \in 1..Len(centers)}
        \cup (IF isNaN(search.location.latitude) \/ isNaN(search.location.longitude)
              THEN {}
              ELSE {<<search.location.latitude, search.location.longitude>>})

\* C23: the distance function is symmetric: for every pair of points a and
\* b the distance from a to b equals the distance from b to a; in
\* particular the distance a result carries, from the location to the
\* record, is the distance from the record to the location
C23_DistanceSymmetric ==
    SearchResolved =>
        /\ \A a, b \in SearchPoints :
              calculateDistance(a[1], a[2], b[1], b[2])
                  = calculateDistance(b[1], b[2], a[1], a[2])
        /\ \A i \in 1..Len(filteredCenters) :
              filteredCenters[i].distance
                  = calculateDistance(filteredCenters[i].latitude,
                                      filteredCenters[i].longitude,
                                      search.location.latitude,
                                      search.location.longitude)

\* a resolved search whose result holds a record to the north-west of the
\* location, at a distance greater than 0
C23_Witness ==
    /\ SearchResolved
    /\ \E i \in 1..Len(filteredCenters) :
          /\ filteredCenters[i].distance > 0
          /\ filteredCenters[i].latitude > search.location.latitude
          /\ filteredCenters[i].longitude < search.location.longitude

----------------------------------------------------------------------------
(* Properties of classify (SpecClassify)                                   *)

\* the flags each token of TokenTexts stands for, read off by hand
TokenCapabilities ==
    << {"vision"},
       {"dental_care"},
       {"primary_care"},
       {"vision"},
       {"behavioral_health"},
       {"pharmacy"},
       {},
       {"behavioral_health"},
       {"dental_care", "vision"},
       {} >>

\* C24: classify sets a capability flag if and only if at least one
\* comma-separated token of the input, trimmed and lowercased, contains one
\* of the keywords of that flag; classify('Eye Care') yields vision true and
\* every other flag false
C24_FlagIffSomeTokenHasKeyword ==
    classification # null =>
        /\ \A c \in Capabilities :
              classification.flags[c] <=>
                  \E i \in 1..Len(classification.picked) :
                      c \in TokenCapabilities[classification.picked[i]]
        /\ classification.text = <<"E","y","e"," ","C","a","r","e">> =>
              classification.flags = [c \in Capabilities |-> c = "vision"]

\* classify(' dental care,Dental/Vision'): one token sets two flags
C24_Witness ==
    /\ classification # null
    /\ classification.picked = <<2, 9>>
    /\ classification.flags =
          [c \in Capabilities |-> c \in {"dental_care", "vision"}]

----------------------------------------------------------------------------
(* Properties of the service type filters                                  *)

\* the record has at least one of the capabilities selected in f
HasSelectedCapability(f, center) ==
    \/ f["primary_care"] /\ center.has_primary_care
    \/ f["dental_care"] /\ center.has_dental_care
    \/ f["vision"] /\ center.has_vision
    \/ f["behavioral_health"] /\ center.has_behavioral_health
    \/ f["pharmacy"] /\ center.has_pharmacy

\* C25: while records are loaded and no zipcode search is active, after
\* every change of the selected filters the displayed list is the loaded
\* records that have at least one selected capability, or all loaded records
\* when no filter is selected, for every subset of the five filters
C25_FilterChangeShowsMatchingRecords ==
    [][(filter' # filter /\ Len(centers) > 0 /\ ~loading /\ searchZipcode = <<>>)
          => filteredCenters' =
                IF \E c \in Capabilities : filter'[c]
                THEN SelectSeq(centers,
                               LAMBDA center : HasSelectedCapability(filter', center))
                ELSE centers]_vars

\* the list a search of the given location and radius displays under the
\* filters f
ResultsUnder(f, location, r) ==
    LET inRadius == centersWithDistance(centers, location, r)
    IN  IF \E c \in Capabilities : f[c]
        THEN SelectSeq(inRadius, LAMBDA center :
                 hasNoServiceData(center) \/ HasSelectedCapability(f, center))
        ELSE inRadius

\* C26: once a zipcode search has succeeded, toggling a filter leaves the
\* displayed list unchanged, and the list a search displays is the one of
\* the filters selected when the search was started, also when a filter
\* was toggled while the search was in flight
C26_FiltersApplyAtSearchStart ==
    [][/\ (filter' # filter /\ searchZipcode # <<>>)
            => filteredCenters' = filteredCenters
       /\ (search.pc = "awaiting" /\ search'.pc = "done" /\ search'.location # null)
            => filteredCenters' =
                  ResultsUnder(search.filter, search'.location, search.radius)]_vars

\* a search has displayed its results, the filters are no longer those of
\* its start, and the list is not the one the present filters would give
C26_Witness ==
    /\ search.pc = "done" /\ search.location # null
    /\ searchZipcode # <<>>
    /\ filter # search.filter
    /\ filteredCenters # <<>>
    /\ filteredCenters # ResultsUnder(filter, search.location, search.radius)

----------------------------------------------------------------------------
(* Properties of the searching flag (SpecSearchFair)                       *)

\* C27: provided the geocoding call returns or throws (no request stays
\* unanswered forever), every search that is started ends with the searching
\* flag false, whether it succeeds, fails to resolve or throws
C27_SearchingEventuallyFalse ==
    ([]<>(geo.pc # "fetching")) => (searching ~> ~searching)

\* a search ended in the catch block and the flag is down
C27_Witness ==
    /\ search.pc = "done"
    /\ error = "searchError"
    /\ ~searching

----------------------------------------------------------------------------
(* Properties of the unresolved search (SpecSearch)                        *)

\* C28: a search whose postal code resolution fails leaves the displayed
\* list and the active search zipcode as they were before it: of the state
\* of the page, its start changes only the error message, the selected
\* center and the searching flag, and its end only the error message and
\* the searching flag
C28_UnresolvedSearchKeepsResults ==
    [][/\ (search.pc # "awaiting" /\ search'.pc = "awaiting")
            => UNCHANGED <<centers, filteredCenters, searchZipcode, zipcode,
                           radius, filter, loading>>
       /\ (search.pc = "awaiting" /\ search'.pc = "done" /\ search'.location = null)
            => /\ UNCHANGED <<centers, filteredCenters, searchZipcode, zipcode,
                              radius, filter, loading, selectedCenter>>
               /\ error' = "notFound" /\ searching' = FALSE]_vars

\* an unresolved search has ended and the results of an earlier search are
\* still displayed
C28_Witness ==
    /\ search.pc = "done" /\ search.location = null
    /\ error = "notFound" /\ ~searching
    /\ searchZipcode # <<>>
    /\ filteredCenters # <<>>

----------------------------------------------------------------------------
(* Properties of overlapping searches (SpecSearch)                         *)

\* C29: once no request is in flight the displayed results are those of
\* the most recently started search: its list and its zipcode when it
\* resolved, and no results of an older search when it did not
C29_DisplayIsLatestSearch ==
    (search.pc = "done" /\ geo.pc = "idle" /\ ~searching /\ ~loading)
        => IF search.location # null
           THEN /\ searchZipcode = search.zipcode
                /\ filteredCenters =
                      ResultsUnder(search.filter, search.location, search.radius)
           ELSE searchZipcode = <<>>

----------------------------------------------------------------------------
(* Properties of the number of analytics events (SpecAnalytics)            *)

\* C30: with analytics switched on, a search whose postal code resolved
\* emits exactly one zipcode_search event, and a search that fails
\* validation or resolution emits none
C30_OneEventPerResolvedSearch ==
    gtag =>
        /\ Len(gtagEvents) <= 1
        /\ (search.pc = "done" /\ search.location # null /\ error # "enterZipcode")
              => Len(gtagEvents) = 1
        /\ (error \in {"enterZipcode", "notFound"}) => gtagEvents = <<>>

====
